---- MODULE Spec2Model ----
(***************************************************************************)
(* Model of the sentinel-edge job/result pipeline: Ingress publishes Jobs  *)
(* on the Job Bus (a Redis stream), the four worker classes read them      *)
(* through their own consumer groups and publish Results on the Result     *)
(* Bus, and the ResultAggregator joins the Results of a job and uploads    *)
(* the completed record to the central server.                             *)
(*                                                                         *)
(* Python str values are sequences of tokens (a token is a TLA+ string);   *)
(* Python None is the distinguished value None.                            *)
(***************************************************************************)
EXTENDS Integers, Sequences, FiniteSets, TLC

\* ------------------------------------------------------------------ bounds
\* number of vehicles Ingress captures in a run on a reliable bus
MaxJobs == 2
\* number of vehicles Ingress captures in a run on a flaky bus
MaxFlakyJobs == 1
\* number of transport errors (raising xadd / xack calls) in a run on a
\* flaky bus
MaxFaults == 2

\* ----------------------------------------------------------- string helpers
None == <<"NoneType">>

Truthy(x) == x # None /\ x # <<>>

\* a or b, as Python evaluates it
PyOr(a, b) == IF Truthy(a) THEN a ELSE b

\* position of the first occurrence of token c in s, 0 when absent
RECURSIVE IndexFrom(_, _, _)
IndexFrom(s, c, i) ==
    IF i > Len(s) THEN 0
    ELSE IF s[i] = c THEN i
    ELSE IndexFrom(s, c, i + 1)

IndexOf(s, c) == IndexFrom(s, c, 1)

\* s.split(c)[0]
SplitHead(s, c) ==
    IF IndexOf(s, c) = 0 THEN s ELSE SubSeq(s, 1, IndexOf(s, c) - 1)

\* s.split(c, 1)[1], for s containing c
SplitRest(s, c) == SubSeq(s, IndexOf(s, c) + 1, Len(s))

RECURSIVE LStrip(_)
LStrip(s) == IF s # <<>> /\ Head(s) = " " THEN LStrip(Tail(s)) ELSE s

RECURSIVE RStrip(_)
RStrip(s) ==
    IF s # <<>> /\ s[Len(s)] = " " THEN RStrip(SubSeq(s, 1, Len(s) - 1)) ELSE s

\* s.strip()
Strip(s) == RStrip(LStrip(s))

Digits == <<"0", "1", "2", "3", "4", "5", "6", "7", "8", "9">>

IsDigit(t) == \E d \in 1..10 : Digits[d] = t

DigitVal(t) == (CHOOSE d \in 1..10 : Digits[d] = t) - 1

\* int(s) raises ValueError unless s is a non-empty run of digits
IntRaises(s) == s = None \/ s = <<>> \/ \E i \in 1..Len(s) : ~IsDigit(s[i])

\* mutant: int() gives 0 whatever the digits
IntOf_Zero(s) == 0

RECURSIVE IntOf(_)
IntOf(s) ==
    IF s = <<>> THEN 0 ELSE IntOf(SubSeq(s, 1, Len(s) - 1)) * 10 + DigitVal(s[Len(s)])

\* str(n) for a violation code 0..9
StrOfCode(n) == <<Digits[n + 1]>>

\* --------------------------------------------------- sentinel_redis_config
Workers == {"ocr", "color", "logo", "violation"}

\* mutant: the color worker also takes motorcycles
WORKER_TYPES_ColorTakesMotorcycles(w) ==
    CASE w = "ocr" -> {<<"car">>, <<"bus">>, <<"motorcycle">>, <<"truck">>, <<"auto">>}
      [] w = "color" -> {<<"car">>, <<"motorcycle">>}
      [] w = "logo" -> {<<"car">>}
      [] w = "violation" -> {<<"motorcycle">>}
      [] OTHER -> {}

WORKER_TYPES(w) ==
    CASE w = "ocr" -> {<<"car">>, <<"bus">>, <<"motorcycle">>, <<"truck">>, <<"auto">>}
      [] w = "color" -> {<<"car">>}
      [] w = "logo" -> {<<"car">>}
      [] w = "violation" -> {<<"motorcycle">>}
      [] OTHER -> {}

\* mutant: a car is complete without its logo Result
get_expected_workers_NoLogo(vehicle_type) ==
    IF vehicle_type = <<"car">> THEN {"ocr", "color"}
    ELSE IF vehicle_type = <<"motorcycle">> THEN {"ocr", "violation"}
    ELSE {"ocr"}

\* mutant: nothing is expected for a bus
get_expected_workers_NoneForBus(vehicle_type) ==
    IF vehicle_type = <<"car">> THEN {"ocr", "color", "logo"}
    ELSE IF vehicle_type = <<"motorcycle">> THEN {"ocr", "violation"}
    ELSE IF vehicle_type = <<"bus">> THEN {}
    ELSE {"ocr"}

get_expected_workers(vehicle_type) ==
    IF vehicle_type = <<"car">> THEN {"ocr", "color", "logo"}
    ELSE IF vehicle_type = <<"motorcycle">> THEN {"ocr", "violation"}
    ELSE {"ocr"}

\* mutant: every worker takes every vehicle
should_worker_process_Always(worker_type, vehicle_type) == TRUE

should_worker_process(worker_type, vehicle_type) ==
    vehicle_type \in WORKER_TYPES(worker_type)

\* ------------------------------------------------------------------ ingress
\* class names of TRACK_CLASSES
VehicleTypes == {"car", "motorcycle", "bus", "truck", "auto"}

\* the captures Ingress makes in the runs explored: <<class name, whether
\* detect_and_save_plate found a plate>>
Captures == {<<"car", TRUE>>, <<"motorcycle", FALSE>>, <<"bus", TRUE>>}

TrackTok(tid) == <<"1", "2", "3", "4", "5">>[tid]

\* uuid4().hex[:8] of the capture of track tid
Uid(tid) == <<"ab12cd34", "ef56ab78", "0c0d0e0f", "99aa88bb", "77cc66dd">>[tid]

LOCATION == "DEFAULT_LOCATION"

\* vehicle_id = f"{uid}_{ts_str}_{vehicle_type}_{LOCATION}", ts_str = %Y%m%d_%H%M%S
VehicleId(vehicle_type, tid) ==
    <<Uid(tid), "_", "20260101", "_", "120000", "_", vehicle_type, "_", LOCATION>>

\* save_keyframe_organized / detect_and_save_plate return paths under the date folder
OrganizedPath(tid) == <<"/keyframes/", Uid(tid), ".jpg">>

PlatePathOf(tid) == <<"/plates/", Uid(tid), ".jpg">>

NA == <<"N/A">>

\* mutant: the job_id leads with the track id
JobPayload_TrackFirst(vehicle_type, organized_path, track_id, vehicle_id, plate_path) ==
    [job_id |-> <<TrackTok(track_id), "_", vehicle_type, "_">> \o SplitHead(vehicle_id, "_"),
     vehicle_id |-> vehicle_id,
     vehicle_type |-> <<vehicle_type>>,
     frame_path |-> organized_path,
     plate_path |-> IF Truthy(plate_path) THEN plate_path ELSE NA]

\* the payload publish_job builds
JobPayload(vehicle_type, organized_path, track_id, vehicle_id, plate_path) ==
    [job_id |-> <<vehicle_type, "_", TrackTok(track_id), "_">> \o SplitHead(vehicle_id, "_"),
     vehicle_id |-> vehicle_id,
     vehicle_type |-> <<vehicle_type>>,
     frame_path |-> organized_path,
     plate_path |-> IF Truthy(plate_path) THEN plate_path ELSE NA]

VARIABLES
    saved_ids,      \* ingress: track ids already captured
    jobs,           \* Job Bus: the vehicle_jobs stream (entry id = index)
    w_cursor,       \* per worker group: last delivered entry of vehicle_jobs
    w_pel,          \* per worker group: delivered, not yet acknowledged entries
    w_pc,           \* per worker: position in the loop body
    w_msg,          \* per worker: msg_id being handled (0: none)
    w_result,       \* per worker: payload returned by the processing function
    results,        \* Result Bus: the vehicle_results stream (entry id = index)
    agg_cursor,     \* aggregator group: last delivered entry of vehicle_results
    agg_pel,        \* aggregator group: delivered, not yet acknowledged entries
    agg_batch,      \* aggregator: msg_ids of the batch still to be handled
    pending_jobs,   \* aggregator: PendingAggregation table, keyed by job_id
    central_url,    \* aggregator: CENTRAL_API_URL
    flaky,          \* environment: whether bus calls may raise in this run
    bus_up,         \* environment: the bus answers the orchestrator's calls
    prior,          \* history: the bus held an earlier run's state at the start
    groups,         \* bus: the <<stream, group>> pairs that exist
    acks,           \* bus: the vehicle_ack stream and the pending list of ingest
    heartbeat,      \* orchestrator: the heartbeat thread, its position and last post
    faults,         \* number of transport errors raised so far
    proc_log,       \* history: invocations of the processing functions
    xack_raised,    \* history: <<group, msg_id>> of the xack calls that raised
    uploads,        \* history: calls of report_to_central, in order
    evicted,        \* history: job_ids deleted from pending_jobs, in order
    delivered,      \* history: per worker group, the entry ids xreadgroup returned
    shutdown_event, \* per worker: shutdown_event.is_set()
    w_slept,        \* history: per worker, the backoff sleeps of the loop-level handler
    orch_pc,        \* orchestrator: statement of run() the main thread is at
    orch_i,         \* orchestrator: index of the for loop the main thread is in
    processes,      \* orchestrator: self.processes, name -> state of the child
    agg_thread,     \* orchestrator: the aggregator thread was started
    shutdown_requested, \* orchestrator: self.shutdown_requested
    after_stop,     \* orchestrator: the statement that follows the stop_all() call
    dead,           \* orchestrator: dead_processes of the last health check
    exit_code,      \* orchestrator: exit status of the process (NoExit: running)
    interrupted,    \* history: SIGINT reached the orchestrator
    stage_log,      \* history: the startup stages begun and what each reported
    stop_log,       \* history: what stop_all did to each child, in order
    call            \* a call of a pure function: name, argument, returned value

vars == <<saved_ids, jobs, w_cursor, w_pel, w_pc, w_msg, w_result, results,
          agg_cursor, agg_pel, agg_batch, pending_jobs, central_url, flaky,
          bus_up, prior, groups, acks, heartbeat, faults, proc_log, xack_raised, uploads, evicted, delivered,
          shutdown_event, w_slept,
          orch_pc, orch_i, processes, agg_thread, shutdown_requested,
          after_stop, dead, exit_code, interrupted, stage_log, stop_log, call>>

ingress_vars == <<saved_ids, jobs>>
env_vars == <<central_url, flaky, bus_up, prior, groups, acks, heartbeat>>
worker_vars == <<w_cursor, w_pel, w_pc, w_msg, w_result, proc_log, delivered,
                 shutdown_event, w_slept>>
agg_vars == <<agg_cursor, agg_pel, agg_batch, pending_jobs, uploads, evicted>>
pipeline_vars == <<ingress_vars, env_vars, worker_vars, agg_vars, results,
                   faults, xack_raised>>
orch_vars == <<orch_pc, orch_i, processes, agg_thread, shutdown_requested,
               after_stop, dead, exit_code, interrupted, stage_log, stop_log>>

\* --------------------------------------------------- orchestrator: tables
\* the list start_workers iterates over
workers == <<"OCR Worker", "Color Worker", "Logo Worker", "Violation Worker">>

\* mutant: stop_all leaves the Monitor out
shutdown_order_NoMonitor ==
    <<"Ingress", "Aggregator", "Aggregator", "Logo Worker", "Color Worker",
      "OCR Worker", "Violation Worker">>

shutdown_order ==
    <<"Ingress", "Monitor", "Aggregator", "Logo Worker", "Color Worker",
      "OCR Worker", "Violation Worker">>

\* the stages run() goes through, in program order (start_workers begins one
\* per worker)
Stages ==
    <<"Heartbeat", "Redis cleanup">> \o workers \o <<"Aggregator", "Monitor", "Ingress">>

\* the names start_process is called with
ChildNames == {workers[k] : k \in 1..Len(workers)} \cup {"Monitor", "Ingress"}

\* returncode of a process that has not exited
NoExit == -1

SIGKILL == 9

\* the orchestrator after a startup in which every stage reported success:
\* the main thread polls in monitor_system
Started ==
    /\ orch_pc = "monitor_system"
    /\ orch_i = 0
    /\ processes = [name \in ChildNames |-> "running"]
    /\ agg_thread = TRUE
    /\ shutdown_requested = FALSE
    /\ after_stop = "none"
    /\ dead = {}
    /\ exit_code = NoExit
    /\ interrupted = FALSE
    /\ stage_log = [k \in 1..Len(Stages) |-> [stage |-> Stages[k], ok |-> TRUE]]
    /\ stop_log = <<>>
    /\ heartbeat = [pc |-> "post", last |-> "none"]

\* no pure function is being called
NoCall == call = [fn |-> "none", arg |-> None, ret |-> None]

\* the processes of the pipeline when they start: nothing captured, every
\* worker and the aggregator about to read, the table of the aggregator empty
AtLoopHeads ==
    /\ saved_ids = {}
    /\ w_pc = [w \in Workers |-> "read"]
    /\ w_msg = [w \in Workers |-> 0]
    /\ w_result = [w \in Workers |-> None]
    /\ agg_batch = <<>>
    /\ pending_jobs = [k \in {} |-> <<"NoneType">>]
    /\ central_url = <<"http://central">>
    /\ flaky \in BOOLEAN
    /\ faults = 0
    /\ proc_log = {}
    /\ xack_raised = {}
    /\ uploads = <<>>
    /\ evicted = <<>>
    /\ delivered = [w \in Workers |-> <<>>]
    /\ shutdown_event = [w \in Workers |-> FALSE]
    /\ w_slept = [w \in Workers |-> 0]

\* the list of streams cleanup_redis deletes
\* mutant: vehicle_results is left out
streams_NoResults == {"vehicle_jobs", "vehicle_ack"}

streams == {"vehicle_jobs", "vehicle_results", "vehicle_ack"}

\* consumer_groups of cleanup_redis, as <<stream, group>> pairs
consumer_groups ==
    {<<"vehicle_jobs", g>> : g \in {"ocr_workers", "color_workers",
                                     "logo_workers", "violation_workers"}}
        \cup {<<"vehicle_results", "aggregator">>, <<"vehicle_ack", "ingest">>}

\* a stream without entries, its group without pending entries
NoAcks == [entries |-> <<>>, pending |-> {}]

\* the streams and groups after every delete and every xgroup_create of
\* cleanup_redis succeeded
BusClean ==
    /\ jobs = <<>>
    /\ w_cursor = [w \in Workers |-> 0]
    /\ w_pel = [w \in Workers |-> {}]
    /\ results = <<>>
    /\ agg_cursor = 0
    /\ agg_pel = {}
    /\ groups = consumer_groups
    /\ acks = NoAcks

\* the streams and groups as cleanup_redis leaves them on a reachable bus, the
\* workers and the aggregator at the top of their loops
PipelineInit ==
    /\ bus_up = TRUE
    /\ prior = FALSE
    /\ BusClean
    /\ AtLoopHeads

\* the pipeline once the orchestrator has started every process
Init ==
    /\ PipelineInit
    /\ Started
    /\ NoCall

\* the tracker numbers its tracks in order of appearance
NextTrack == Cardinality(saved_ids) + 1

\* A tracked vehicle inside the trigger zone is captured once per track id
\* and published as one Job.
IngressCapture(track_id, vehicle_type, has_plate) ==
    /\ Len(jobs) < (IF flaky THEN MaxFlakyJobs ELSE MaxJobs)
    /\ track_id \notin saved_ids
    /\ saved_ids' = saved_ids \cup {track_id}
    /\ jobs' = Append(jobs,
                 JobPayload(vehicle_type, OrganizedPath(track_id), track_id,
                            VehicleId(vehicle_type, track_id),
                            IF has_plate THEN PlatePathOf(track_id) ELSE None))
    /\ UNCHANGED <<worker_vars, results, agg_vars, env_vars, orch_vars, call, xack_raised, faults>>

\* ------------------------------------------------------------------ workers
Raise == <<"Exception">>

\* Outcomes of the processing function of worker w on a job: the payloads it
\* may return, or Raise.  process_ocr, process_color and get_violation_code
\* catch their own exceptions; process_logo does not.
process_ocr(frame_path, plate_path) ==
    IF ~Truthy(plate_path) \/ plate_path = NA THEN {NA}
    ELSE {<<"KA01AB1234">>}

process_color(frame_path) == {<<"Red", "|", "#FF0000">>}

process_logo(frame_path, vehicle_id) == {<<"Toyota">>, Raise}

get_violation_code(frame_path) == {2}

ProcessOutcomes(w, job) ==
    CASE w = "ocr" -> process_ocr(job.frame_path, job.plate_path)
      [] w = "color" -> process_color(job.frame_path)
      [] w = "logo" -> process_logo(job.frame_path, job.vehicle_id)
      [] w = "violation" -> {StrOfCode(c) : c \in get_violation_code(job.frame_path)}

\* color_worker builds its status=ok fields from the name plate_path, which
\* the function never binds: evaluating the dict raises NameError.
OkFieldsRaise(w) == w = "color"

\* fields of the Result a worker publishes after the processing function returned
OkResult(w, job, result) ==
    [job_id |-> job.job_id, vehicle_id |-> job.vehicle_id, worker |-> w,
     result |-> result, status |-> "ok",
     frame_path |-> job.frame_path, plate_path |-> job.plate_path]

ErrDefault(w) ==
    CASE w = "ocr" -> NA
      [] w = "color" -> <<"unknown", "|", "#000000">>
      [] w = "logo" -> <<"Unknown">>
      [] w = "violation" -> <<"0">>

\* fields of the Result a worker publishes from its except branch
ErrResult(w, job) ==
    [job_id |-> job.job_id,
     vehicle_id |-> IF w = "ocr" THEN None ELSE job.vehicle_id,
     worker |-> w, result |-> ErrDefault(w), status |-> "error",
     frame_path |-> IF w = "ocr" THEN job.frame_path ELSE None,
     plate_path |-> IF w = "ocr" THEN job.plate_path ELSE None]

\* the except branch of logo_worker publishes and does not acknowledge
ErrBranchAcks(w) == w # "logo"

CurJob(w) == jobs[w_msg[w]]

Goto(w, label) == w_pc' = [w_pc EXCEPT ![w] = label]

\* a bus call (xadd, xack) raises a transport error
Fault == /\ flaky
         /\ faults < MaxFaults
         /\ faults' = faults + 1

NoFault == UNCHANGED faults

\* mutant: the xadd of a Result is dropped
Publish_Dropped(fields) == UNCHANGED results

Publish(fields) == results' = Append(results, fields)

\* xreadgroup(GROUP, worker_id, {VEHICLE_JOBS_STREAM: ">"}, count=1): the next
\* entry of the stream is delivered to the group and enters its pending list
\* mutant: the read asks for id "0", which hands out the last entry again
NextMsg_LastAgain(w) == IF w_cursor[w] = 0 THEN 1 ELSE w_cursor[w]

NextMsg(w) == w_cursor[w] + 1

Xreadgroup(w) ==
    /\ w_pc[w] = "read"
    /\ w_cursor[w] < Len(jobs)
    /\ w_cursor' = [w_cursor EXCEPT ![w] = NextMsg(w)]
    /\ delivered' = [delivered EXCEPT ![w] = Append(@, NextMsg(w))]

\* the entries pending in the group of w once msg_id was read and, if acked,
\* acknowledged
PelAfter(w, msg_id, acked) ==
    [w_pel EXCEPT ![w] = IF acked THEN @ \ {msg_id} ELSE @ \cup {msg_id}]

\* `while not shutdown_event.is_set()`, evaluated when an iteration ends: the
\* worker leaves the loop ("done") or calls xreadgroup again.  The handlers
\* of SIGINT and SIGTERM only set the event, so the flag is looked at
\* nowhere else.
\* mutant: the loop is `while True`
LoopHead_IgnoresFlag(w) == "read"

LoopHead(w) == IF shutdown_event[w] THEN "done" ELSE "read"

\* the loop-level handler: `except Exception`, print, time.sleep(1)
Sleeps(w) == w_slept' = [w_slept EXCEPT ![w] = @ + 1]

\* mutant: the loop-level handler re-raises and the worker ends
AfterLoopHandler_Reraises(w) == "done"

\* where the worker is after the loop-level handler
AfterLoopHandler(w) == LoopHead(w)

\* the handling of the message ends; count=1, so the next statement is the
\* test of the loop
NextRead(w) == /\ Goto(w, LoopHead(w))
               /\ w_msg' = [w_msg EXCEPT ![w] = 0]

\* the iteration ends in the loop-level handler
NextReadAfterSleep(w) ==
    /\ Goto(w, AfterLoopHandler(w))
    /\ w_msg' = [w_msg EXCEPT ![w] = 0]
    /\ Sleeps(w)

\* the worker enters its except branch holding msg_id
EnterExcept(w, msg_id) ==
    /\ Goto(w, "except")
    /\ w_msg' = [w_msg EXCEPT ![w] = msg_id]
    /\ w_pel' = PelAfter(w, msg_id, FALSE)

Relevant(w) == should_worker_process(w, jobs[NextMsg(w)].vehicle_type)

Invoke(w, out) ==
    /\ out \in ProcessOutcomes(w, jobs[NextMsg(w)])
    /\ proc_log' = proc_log \cup
           {[worker |-> w, msg_id |-> NextMsg(w), outcome |-> out]}
    /\ w_result' = [w_result EXCEPT ![w] = IF out = Raise THEN @ ELSE out]

\* One loop iteration on a job that is not relevant to the worker class: the
\* else branch acknowledges it.
WorkerSkip(w) ==
    /\ Xreadgroup(w)
    /\ ~Relevant(w)
    /\ w_pel' = PelAfter(w, NextMsg(w), TRUE)
    /\ NoFault
    /\ Goto(w, LoopHead(w))
    /\ UNCHANGED <<ingress_vars, w_msg, w_result, proc_log, results,
                   shutdown_event, w_slept,
                   agg_vars, env_vars, orch_vars, call, xack_raised>>

\* else branch: the xack raises; the loop-level handler logs and sleeps
WorkerSkipXackFails(w) ==
    /\ Xreadgroup(w)
    /\ ~Relevant(w)
    /\ w_pel' = PelAfter(w, NextMsg(w), FALSE)
    /\ Fault
    /\ xack_raised' = xack_raised \cup {<<w, NextMsg(w)>>}
    /\ Goto(w, AfterLoopHandler(w))
    /\ Sleeps(w)
    /\ UNCHANGED <<ingress_vars, w_msg, w_result, proc_log, results,
                   shutdown_event,
                   agg_vars, env_vars, orch_vars, call>>

\* One loop iteration on a relevant job, try branch: the processing function
\* returns, the status=ok Result is published and the job acknowledged.  When
\* the processing function or the evaluation of the fields raises, the except
\* branch takes over.
WorkerTry(w) ==
    /\ Xreadgroup(w)
    /\ Relevant(w)
    /\ \E out \in ProcessOutcomes(w, jobs[NextMsg(w)]) :
         /\ Invoke(w, out)
         /\ IF out = Raise \/ OkFieldsRaise(w)
            THEN EnterExcept(w, NextMsg(w)) /\ UNCHANGED results
            ELSE /\ Publish(OkResult(w, jobs[NextMsg(w)], out))
                 /\ w_pel' = PelAfter(w, NextMsg(w), TRUE)
                 /\ Goto(w, LoopHead(w))
                 /\ UNCHANGED w_msg
    /\ NoFault
    /\ UNCHANGED <<ingress_vars, shutdown_event, w_slept, agg_vars, env_vars,
                   orch_vars, call, xack_raised>>

\* try branch: the xadd raises; the except branch takes over
WorkerTryXaddFails(w) ==
    /\ Xreadgroup(w)
    /\ Relevant(w)
    /\ \E out \in ProcessOutcomes(w, jobs[NextMsg(w)]) :
         /\ out # Raise /\ ~OkFieldsRaise(w)
         /\ Invoke(w, out)
    /\ EnterExcept(w, NextMsg(w))
    /\ Fault
    /\ UNCHANGED <<ingress_vars, results, shutdown_event, w_slept, agg_vars,
                   env_vars, orch_vars, call, xack_raised>>

\* try branch: the xadd succeeds and the xack raises; the except branch
\* takes over
WorkerTryXackFails(w) ==
    /\ Xreadgroup(w)
    /\ Relevant(w)
    /\ \E out \in ProcessOutcomes(w, jobs[NextMsg(w)]) :
         /\ out # Raise /\ ~OkFieldsRaise(w)
         /\ Invoke(w, out)
         /\ Publish(OkResult(w, jobs[NextMsg(w)], out))
    /\ EnterExcept(w, NextMsg(w))
    /\ Fault
    /\ xack_raised' = xack_raised \cup {<<w, NextMsg(w)>>}
    /\ UNCHANGED <<ingress_vars, shutdown_event, w_slept, agg_vars, env_vars,
                   orch_vars, call>>

\* except branch: xadd of the status=error Result, then xack (not in
\* logo_worker)
WorkerExcept(w) ==
    /\ w_pc[w] = "except"
    /\ Publish(ErrResult(w, CurJob(w)))
    /\ w_pel' = IF ErrBranchAcks(w) THEN PelAfter(w, w_msg[w], TRUE) ELSE w_pel
    /\ NextRead(w)
    /\ NoFault
    /\ UNCHANGED <<ingress_vars, w_cursor, delivered, w_result, proc_log, agg_vars,
                   shutdown_event, w_slept, env_vars, orch_vars, call, xack_raised>>

\* except branch: the xadd raises; the loop-level handler logs and sleeps
WorkerExceptXaddFails(w) ==
    /\ w_pc[w] = "except"
    /\ Fault
    /\ NextReadAfterSleep(w)
    /\ UNCHANGED <<ingress_vars, w_cursor, delivered, w_pel, w_result, proc_log, results,
                   shutdown_event, agg_vars, env_vars, orch_vars, call, xack_raised>>

\* except branch: the xadd succeeds and the xack raises; the loop-level
\* handler logs and sleeps
WorkerExceptXackFails(w) ==
    /\ w_pc[w] = "except"
    /\ ErrBranchAcks(w)
    /\ Publish(ErrResult(w, CurJob(w)))
    /\ Fault
    /\ xack_raised' = xack_raised \cup {<<w, w_msg[w]>>}
    /\ NextReadAfterSleep(w)
    /\ UNCHANGED <<ingress_vars, w_cursor, delivered, w_pel, w_result, proc_log,
                   shutdown_event, agg_vars, env_vars, orch_vars, call>>

WorkerStep(w) ==
    \/ WorkerSkip(w)
    \/ WorkerSkipXackFails(w)
    \/ WorkerTry(w)
    \/ WorkerTryXaddFails(w)
    \/ WorkerTryXackFails(w)
    \/ WorkerExcept(w)
    \/ WorkerExceptXaddFails(w)
    \/ WorkerExceptXackFails(w)

\* xreadgroup raises: the loop-level handler logs and sleeps
WorkerReadFails(w) ==
    /\ w_pc[w] = "read"
    /\ Fault
    /\ Goto(w, AfterLoopHandler(w))
    /\ Sleeps(w)
    /\ UNCHANGED <<ingress_vars, w_cursor, delivered, w_pel, w_msg, w_result,
                   proc_log, results, shutdown_event, agg_vars, env_vars,
                   orch_vars, call, xack_raised>>

\* handle_shutdown: SIGINT or SIGTERM reaches the worker process
handle_shutdown(w) ==
    /\ w_pc[w] # "done"
    /\ ~shutdown_event[w]
    /\ shutdown_event' = [shutdown_event EXCEPT ![w] = TRUE]
    /\ UNCHANGED <<ingress_vars, w_cursor, delivered, w_pel, w_pc, w_msg, w_result,
                   proc_log, results, w_slept, agg_vars, env_vars, orch_vars,
                   call, xack_raised, faults>>

\* The flag is set while the worker is at the test of the loop, or blocked in
\* an xreadgroup that returns nothing after BLOCK_TIME: `continue`, and the
\* test of the loop ends it.
WorkerLeaves(w) ==
    /\ w_pc[w] = "read"
    /\ shutdown_event[w]
    /\ Goto(w, LoopHead(w))
    /\ UNCHANGED <<ingress_vars, w_cursor, delivered, w_pel, w_msg, w_result,
                   proc_log, results, shutdown_event, w_slept, agg_vars,
                   env_vars, orch_vars, call, xack_raised, faults>>

\* the workers and Ingress, with the signals and the failing reads
WorkerProgress(w) ==
    \/ WorkerStep(w)
    \/ WorkerLeaves(w)

WorkerNext ==
    \/ \E c \in Captures : IngressCapture(NextTrack, c[1], c[2])
    \/ \E w \in Workers : WorkerProgress(w)
    \/ \E w \in Workers : WorkerReadFails(w)
    \/ \E w \in Workers : handle_shutdown(w)

\* the pipeline started, bus errors possible or not
WorkerInit == Init

WorkerSpec == WorkerInit /\ [][WorkerNext]_vars

\* A worker is never blocked for good: xreadgroup returns after BLOCK_TIME at
\* the latest and every other call of the loop returns or raises.
WorkerLiveSpec == WorkerSpec /\ \A w \in Workers : WF_vars(WorkerProgress(w))

\* --------------------------------------------------------------- aggregator
\* count= of the aggregator's xreadgroup
AggBatchCount == 10

EmptyMap == [k \in {} |-> None]

\* d.get(k, default)
Get(d, k, default) == IF k \in DOMAIN d THEN d[k] ELSE default

\* d[k] = v
Put(d, k, v) == [x \in DOMAIN d \cup {k} |-> IF x = k THEN v ELSE d[x]]

\* del d[k]
Del(d, k) == [x \in DOMAIN d \ {k} |-> d[x]]

\* datetime.now().isoformat() at the first sight of a job
Now == <<"2026-01-01T12:00:01">>

\* mutant: split at every '|', hex is the second piece
parse_color_result_SplitAll(result) ==
    IF IndexOf(result, "|") # 0
    THEN <<Strip(SplitHead(result, "|")),
           Strip(SplitHead(SplitRest(result, "|"), "|"))>>
    ELSE <<Strip(result), <<"#000000">>>>

parse_color_result(result) ==
    IF IndexOf(result, "|") # 0
    THEN <<Strip(SplitHead(result, "|")), Strip(SplitRest(result, "|"))>>
    ELSE <<Strip(result), <<"#000000">>>>

\* answers of the central server to the upload request
Responses == {"200", "500", "exception"}

\* mutant: the string "None" passes for a frame path
UploadSent_NoSentinel(frame_path) ==
    /\ Truthy(central_url)
    /\ Truthy(frame_path)

\* report_to_central reaches requests.post
UploadSent(frame_path) ==
    /\ Truthy(central_url)
    /\ Truthy(frame_path)
    /\ frame_path \notin {<<"None">>, <<>>}

report_to_central(job_data, frame_path, plate_path, response) ==
    UploadSent(frame_path) /\ response = "200"

\* f.get("keyframe_path"): no worker publishes this field
keyframe_path(f) == None

\* mutant: the paths are taken from the first message of the job only
Upsert_PathsSetOnce(f) ==
    LET job_id == f.job_id
        created == IF job_id \in DOMAIN pending_jobs
                   THEN pending_jobs[job_id]
                   ELSE [results |-> EmptyMap,
                         vehicle_id |-> f.vehicle_id,
                         frame_path |-> PyOr(f.frame_path, keyframe_path(f)),
                         plate_path |-> f.plate_path,
                         timestamp |-> Now]
    IN [created EXCEPT !.results = Put(@, f.worker, f.result)]

\* the entry of job_id after the fields f of a Result were merged into it
Upsert(f) ==
    LET job_id == f.job_id
        created == IF job_id \in DOMAIN pending_jobs
                   THEN pending_jobs[job_id]
                   ELSE [results |-> EmptyMap,
                         vehicle_id |-> f.vehicle_id,
                         frame_path |-> PyOr(f.frame_path, keyframe_path(f)),
                         plate_path |-> f.plate_path,
                         timestamp |-> Now]
        current_path == PyOr(f.frame_path, keyframe_path(f))
    IN [created EXCEPT
          !.frame_path = IF Truthy(current_path) THEN current_path ELSE @,
          !.plate_path = IF Truthy(f.plate_path) THEN f.plate_path ELSE @,
          !.results = Put(@, f.worker, f.result)]

\* mutant: an entry is complete once the ocr Result is merged
Complete_OnOcr(job_id, entry) == "ocr" \in DOMAIN entry.results

\* the completion test on an entry
Complete(job_id, entry) ==
    get_expected_workers(SplitHead(job_id, "_")) \subseteq DOMAIN entry.results

\* int(res.get("violation", 0)) raises
ViolationRaises(res) == "violation" \in DOMAIN res /\ IntRaises(res["violation"])

\* the record built on completion
JobData(job_id, entry) ==
    LET res == entry.results
        c == parse_color_result(Get(res, "color", <<"unknown", "|", "#000000">>))
    IN [vehicle_id |-> entry.vehicle_id,
        vehicle_type |-> SplitHead(job_id, "_"),
        vehicle_number |-> Get(res, "ocr", NA),
        color |-> c[1],
        color_hex |-> c[2],
        model |-> Get(res, "logo", <<"Unknown">>),
        violation_type |-> IF "violation" \in DOMAIN res
                           THEN IntOf(res["violation"]) ELSE 0,
        timestamp |-> entry.timestamp]

\* the entry of the history for a call of report_to_central
UploadCall(msg_id, job_id, entry, ok) ==
    [msg_id |-> msg_id, job_id |-> job_id, keys |-> DOMAIN entry.results,
     job_data |-> JobData(job_id, entry), frame_path |-> entry.frame_path,
     plate_path |-> entry.plate_path, sent |-> UploadSent(entry.frame_path),
     ok |-> ok]

\* mutant: acknowledge and evict whatever the upload reported
AckAndEvict_Always(ok) == TRUE

\* the aggregator acknowledges and evicts iff report_to_central returned True
AckAndEvict(ok) == ok

\* xreadgroup(AGGREGATOR_GROUP, "edge_agg_1", {VEHICLE_RESULTS_STREAM: ">"},
\* count=10): every new entry, up to count, is delivered
AggRead ==
    /\ agg_batch = <<>>
    /\ agg_cursor < Len(results)
    /\ LET n == IF Len(results) - agg_cursor < AggBatchCount
                THEN Len(results) - agg_cursor ELSE AggBatchCount
       IN /\ agg_batch' = [k \in 1..n |-> agg_cursor + k]
          /\ agg_cursor' = agg_cursor + n
          /\ agg_pel' = agg_pel \cup (agg_cursor + 1)..(agg_cursor + n)
    /\ UNCHANGED <<ingress_vars, worker_vars, results, pending_jobs, uploads,
                   evicted, env_vars, orch_vars, call, xack_raised, faults>>

\* The body of the loop over the batch for its next message: merge, test
\* for completion and, when complete, upload; acknowledge and evict when
\* the upload reported success.
AggHandle(response) ==
    /\ agg_batch # <<>>
    /\ LET msg_id == Head(agg_batch)
           f == results[msg_id]
           job_id == f.job_id
           entry == Upsert(f)
       IN IF ~Complete(job_id, entry)
          THEN /\ pending_jobs' = Put(pending_jobs, job_id, entry)
               /\ agg_batch' = Tail(agg_batch)
               /\ UNCHANGED <<agg_pel, uploads, evicted>>
          ELSE IF ViolationRaises(entry.results)
          THEN \* ValueError: the loop-level handler abandons the batch
               /\ pending_jobs' = Put(pending_jobs, job_id, entry)
               /\ agg_batch' = <<>>
               /\ UNCHANGED <<agg_pel, uploads, evicted>>
          ELSE LET ok == report_to_central(JobData(job_id, entry),
                             entry.frame_path, entry.plate_path, response)
               IN /\ uploads' = Append(uploads, UploadCall(msg_id, job_id, entry, ok))
                  /\ agg_batch' = Tail(agg_batch)
                  /\ IF AckAndEvict(ok)
                     THEN /\ agg_pel' = agg_pel \ {msg_id}
                          /\ pending_jobs' = Del(pending_jobs, job_id)
                          /\ evicted' = Append(evicted, job_id)
                     ELSE /\ pending_jobs' = Put(pending_jobs, job_id, entry)
                          /\ UNCHANGED <<agg_pel, evicted>>
    /\ UNCHANGED <<ingress_vars, worker_vars, results, agg_cursor, env_vars, orch_vars, call, xack_raised, faults>>

\* The upload reported success and the xack raises: the loop-level handler
\* logs and sleeps, the rest of the batch is not handled and the entry is
\* not deleted.
AggHandleXackFails ==
    /\ agg_batch # <<>>
    /\ LET msg_id == Head(agg_batch)
           f == results[msg_id]
           job_id == f.job_id
           entry == Upsert(f)
       IN /\ Complete(job_id, entry)
          /\ ~ViolationRaises(entry.results)
          /\ report_to_central(JobData(job_id, entry), entry.frame_path,
                               entry.plate_path, "200")
          /\ uploads' = Append(uploads, UploadCall(msg_id, job_id, entry, TRUE))
          /\ pending_jobs' = Put(pending_jobs, job_id, entry)
          /\ agg_batch' = <<>>
    /\ Fault
    /\ xack_raised' = xack_raised \cup {<<"aggregator", Head(agg_batch)>>}
    /\ UNCHANGED <<ingress_vars, worker_vars, results, agg_cursor, agg_pel,
                   evicted, env_vars, orch_vars, call>>

\* ------------------------------------------------------------- orchestrator
\* The main thread of orchestrator.py from the call of run() on; the children
\* are processes of their own and may exit at any time.
PriorJob ==
    JobPayload("car", OrganizedPath(1), 1, VehicleId("car", 1), PlatePathOf(1))

\* What an earlier run left on the bus: a job every group has read, which
\* logo_workers never acknowledged, and its ocr Result, read by the
\* aggregator and not acknowledged because the upload of the job failed.
BusLeftover ==
    /\ jobs = <<PriorJob>>
    /\ w_cursor = [w \in Workers |-> 1]
    /\ w_pel = [w \in Workers |-> IF w = "logo" THEN {1} ELSE {}]
    /\ results = <<OkResult("ocr", PriorJob, <<"KA01AB1234">>)>>
    /\ agg_cursor = 1
    /\ agg_pel = {1}
    /\ groups = consumer_groups
    /\ acks = [entries |-> <<[job_id |-> PriorJob.job_id]>>, pending |-> {1}]

\* a bus no run has used: no stream, no group
BusFresh ==
    /\ jobs = <<>>
    /\ w_cursor = [w \in Workers |-> 0]
    /\ w_pel = [w \in Workers |-> {}]
    /\ results = <<>>
    /\ agg_cursor = 0
    /\ agg_pel = {}
    /\ groups = {}
    /\ acks = NoAcks

OrchInit ==
    /\ bus_up \in BOOLEAN
    /\ prior \in BOOLEAN
    /\ IF prior THEN BusLeftover ELSE BusFresh
    /\ AtLoopHeads
    /\ ~flaky
    /\ orch_pc = "start_heartbeat"
    /\ orch_i = 0
    /\ processes = EmptyMap
    /\ agg_thread = FALSE
    /\ shutdown_requested = FALSE
    /\ after_stop = "none"
    /\ dead = {}
    /\ exit_code = NoExit
    /\ interrupted = FALSE
    /\ stage_log = <<>>
    /\ stop_log = <<>>
    /\ heartbeat = [pc |-> "off", last |-> "none"]
    /\ NoCall

\* a stage begins and reports ok
Log(stage, ok) == stage_log' = Append(stage_log, [stage |-> stage, ok |-> ok])

\* mutant: run() goes on to the next stage whatever the stage reported
AfterStage_Ungated(ok, next) == next

\* `if not self.start_x(): ... self.stop_all(); return False`
AfterStage(ok, next) == IF ok THEN next ELSE "stop_all"

StageEnds(ok, next) ==
    /\ orch_pc' = AfterStage(ok, next)
    /\ after_stop' = IF ok THEN after_stop ELSE "return False"

\* How a call of start_process ends: Popen raises, the start of the log
\* thread raises (the child is registered by then), or nothing raises.
StartOutcomes == {"started", "popen_raised", "thread_raised"}

\* self.processes after start_process(name, ...)
Registered(name, outcome) ==
    IF outcome = "popen_raised" THEN processes ELSE Put(processes, name, "running")

\* the value start_process returns
start_process(name, outcome) == outcome = "started"

\* start_heartbeat starts a daemon thread, which is about to post, and
\* returns True
start_heartbeat ==
    /\ orch_pc = "start_heartbeat"
    /\ Log("Heartbeat", TRUE)
    /\ orch_pc' = "cleanup_redis"
    /\ heartbeat' = [pc |-> "post", last |-> "none"]
    /\ UNCHANGED <<orch_i, processes, agg_thread, shutdown_requested, after_stop,
                   dead, exit_code, interrupted, stop_log, call, ingress_vars,
                   central_url, flaky, bus_up, prior, groups, acks, worker_vars,
                   agg_vars, results, faults, xack_raised>>

\* self.r.delete(stream) is called and does not raise
Deleted(stream) == bus_up /\ stream \in streams

\* cleanup_redis: every bus call sits in a try of its own whose handler only
\* prints, so the function returns True whether or not the calls raised.  A
\* delete removes the stream with its groups and their pending lists;
\* xgroup_create(stream, group, id='0', mkstream=True) makes an empty stream
\* and a group without pending entries, and raises BUSYGROUP for a group
\* that is still there.
cleanup_redis ==
    /\ orch_pc = "cleanup_redis"
    /\ Log("Redis cleanup", TRUE)
    /\ orch_pc' = "start_workers"
    /\ orch_i' = 1
    /\ jobs' = IF Deleted("vehicle_jobs") THEN <<>> ELSE jobs
    /\ w_cursor' = IF Deleted("vehicle_jobs") THEN [w \in Workers |-> 0] ELSE w_cursor
    /\ w_pel' = IF Deleted("vehicle_jobs") THEN [w \in Workers |-> {}] ELSE w_pel
    /\ results' = IF Deleted("vehicle_results") THEN <<>> ELSE results
    /\ agg_cursor' = IF Deleted("vehicle_results") THEN 0 ELSE agg_cursor
    /\ agg_pel' = IF Deleted("vehicle_results") THEN {} ELSE agg_pel
    /\ acks' = IF Deleted("vehicle_ack") THEN NoAcks ELSE acks
    /\ groups' = IF bus_up THEN consumer_groups ELSE groups
    /\ UNCHANGED <<processes, agg_thread, shutdown_requested, after_stop,
                   dead, exit_code, interrupted, stop_log, call, saved_ids,
                   central_url, flaky, bus_up, prior, heartbeat, w_pc, w_msg, w_result,
                   proc_log, delivered, shutdown_event, w_slept, agg_batch,
                   pending_jobs, uploads, evicted, faults, xack_raised>>

\* one iteration of the for loop of start_workers; the first start_process
\* that returns False ends the stage
start_workers(outcome) ==
    /\ orch_pc = "start_workers"
    /\ LET name == workers[orch_i]
           ok == start_process(name, outcome)
       IN /\ processes' = Registered(name, outcome)
          /\ Log(name, ok)
          /\ IF ok /\ orch_i < Len(workers)
             THEN /\ orch_i' = orch_i + 1
                  /\ UNCHANGED <<orch_pc, after_stop>>
             ELSE /\ orch_i' = 0
                  /\ StageEnds(ok, "start_aggregator")
    /\ UNCHANGED <<agg_thread, shutdown_requested, dead, exit_code, interrupted,
                   stop_log, pipeline_vars, call>>

\* start_aggregator: ResultAggregator() or the start of its thread may raise
start_aggregator(ok) ==
    /\ orch_pc = "start_aggregator"
    /\ agg_thread' = ok
    /\ Log("Aggregator", ok)
    /\ StageEnds(ok, "start_monitor")
    /\ UNCHANGED <<orch_i, processes, shutdown_requested, dead, exit_code,
                   interrupted, stop_log, pipeline_vars, call>>

start_monitor(outcome) ==
    /\ orch_pc = "start_monitor"
    /\ processes' = Registered("Monitor", outcome)
    /\ Log("Monitor", start_process("Monitor", outcome))
    /\ StageEnds(start_process("Monitor", outcome), "start_ingress")
    /\ UNCHANGED <<orch_i, agg_thread, shutdown_requested, dead, exit_code,
                   interrupted, stop_log, pipeline_vars, call>>

start_ingress(outcome) ==
    /\ orch_pc = "start_ingress"
    /\ processes' = Registered("Ingress", outcome)
    /\ Log("Ingress", start_process("Ingress", outcome))
    /\ StageEnds(start_process("Ingress", outcome), "monitor_system")
    /\ UNCHANGED <<orch_i, agg_thread, shutdown_requested, dead, exit_code,
                   interrupted, stop_log, pipeline_vars, call>>

\* the names whose process.poll() is not None
check_process_health == {name \in DOMAIN processes : processes[name] # "running"}

\* One poll of monitor_system that finds a dead child: with Ingress among
\* them stop_all() and sys.exit(1) follow, otherwise the loop breaks and
\* run() goes on to stop_all() and return True.  A poll that finds none
\* sleeps and polls again.
monitor_system ==
    /\ orch_pc = "monitor_system"
    /\ check_process_health # {}
    /\ dead' = check_process_health
    /\ orch_pc' = "stop_all"
    /\ after_stop' = IF "Ingress" \in check_process_health
                     THEN "sys.exit(1)" ELSE "return True"
    /\ UNCHANGED <<orch_i, processes, agg_thread, shutdown_requested, exit_code,
                   interrupted, stage_log, stop_log, pipeline_vars, call>>

\* mutant: the interpreter ends with status 0 whatever followed stop_all()
ExitCodeAfter_AlwaysZero(statement) == 0

\* Exit status of the interpreter once the statement after stop_all() ran:
\* sys.exit(1) gives 1; `return False` and `return True` end run(), whose
\* value the caller drops, and the script runs off its end.
ExitCodeAfter(statement) == IF statement = "sys.exit(1)" THEN 1 ELSE 0

\* the main thread leaves stop_all(): at once when shutdown was requested
\* before, otherwise after the loop over shutdown_order
StopAllReturns ==
    /\ orch_pc' = "exited"
    /\ exit_code' = ExitCodeAfter(after_stop)

\* the test stop_all makes under shutdown_lock
\* mutant: stop_all does not look at the flag
AlreadyRequested_Never == FALSE

AlreadyRequested == shutdown_requested

\* stop_all(), under the lock: a second call returns at once
stop_all_enter ==
    /\ orch_pc = "stop_all"
    /\ orch_i = 0
    /\ IF AlreadyRequested
       THEN /\ StopAllReturns
            /\ UNCHANGED <<orch_i, shutdown_requested>>
       ELSE /\ shutdown_requested' = TRUE
            /\ orch_i' = 1
            /\ UNCHANGED <<orch_pc, exit_code>>
    /\ UNCHANGED <<processes, agg_thread, after_stop, dead, interrupted,
                   stage_log, stop_log, pipeline_vars, call>>

\* psutil.pid_exists(pid): a pid exists until its process has ended and has
\* been waited for ("zombie": ended, not waited for)
is_pid_alive(state) == state \in {"running", "zombie"}

\* mutant: the last print of the iteration does not look at the pid
Report_AlwaysStopped(state) == "successfully stopped"

\* the last print of the iteration for a child in this state
Report(state) ==
    IF ~is_pid_alive(state) THEN "successfully stopped"
    ELSE "still running after cleanup"

\* the state os.kill(pid, SIGKILL) leaves the child in: nothing waits for it
\* before the pid is looked up again
\* mutant: the direct kill is not sent
AfterKill_NotSent == "running"

AfterKill == "zombie"

Stopped(name, how, report) ==
    stop_log' = Append(stop_log, [name |-> name, how |-> how, report |-> report])

\* How the iteration of stop_all for a running child ends: the child exits
\* within 10 s of terminate() and wait() collects it; wait() times out and
\* os.killpg is sent; or terminate() raises and os.kill(pid, SIGKILL)
\* follows.
StopOutcomes == {"graceful", "killpg", "kill"}

\* One iteration of the loop over shutdown_order.  The children are started
\* without a session or process group of their own, so os.getpgid(pid) is
\* the group of the orchestrator: os.killpg ends every child and the
\* orchestrator itself.
stop_all_next(how) ==
    /\ orch_pc = "stop_all"
    /\ orch_i \in 1..Len(shutdown_order)
    /\ LET name == shutdown_order[orch_i]
       IN IF name \notin DOMAIN processes
          THEN /\ how = "graceful"
               /\ orch_i' = orch_i + 1
               /\ UNCHANGED <<processes, stop_log, orch_pc, exit_code>>
          ELSE IF processes[name] # "running"
          THEN /\ how = "graceful"
               /\ Stopped(name, "exited before", Report(processes[name]))
               /\ orch_i' = orch_i + 1
               /\ UNCHANGED <<processes, orch_pc, exit_code>>
          ELSE IF how = "killpg"
          THEN /\ Stopped(name, how, "none")
               /\ processes' = [n \in DOMAIN processes |-> "exited"]
               /\ orch_pc' = "exited"
               /\ exit_code' = -SIGKILL
               /\ UNCHANGED orch_i
          ELSE LET after == IF how = "kill" THEN AfterKill ELSE "exited"
               IN /\ Stopped(name, how, Report(after))
                  /\ processes' = [processes EXCEPT ![name] = after]
                  /\ orch_i' = orch_i + 1
                  /\ UNCHANGED <<orch_pc, exit_code>>
    /\ UNCHANGED <<agg_thread, shutdown_requested, after_stop, dead, interrupted,
                   stage_log, pipeline_vars, call>>

\* the loop over shutdown_order is over
stop_all_return ==
    /\ orch_pc = "stop_all"
    /\ orch_i > Len(shutdown_order)
    /\ StopAllReturns
    /\ UNCHANGED <<orch_i, processes, agg_thread, shutdown_requested, after_stop,
                   dead, interrupted, stage_log, stop_log, pipeline_vars, call>>

\* signal_handler: SIGINT raises SystemExit(0) in the main thread wherever it
\* is; no handler of run() or of the script catches SystemExit
signal_handler ==
    /\ orch_pc # "exited"
    /\ interrupted' = TRUE
    /\ orch_pc' = "exited"
    /\ exit_code' = 0
    /\ UNCHANGED <<orch_i, processes, agg_thread, shutdown_requested, after_stop,
                   dead, stage_log, stop_log, pipeline_vars, call>>

\* a child process exits of its own
ChildExits(name) ==
    /\ name \in DOMAIN processes
    /\ processes[name] = "running"
    /\ processes' = [processes EXCEPT ![name] = "exited"]
    /\ UNCHANGED <<orch_pc, orch_i, agg_thread, shutdown_requested, after_stop,
                   dead, exit_code, interrupted, stage_log, stop_log,
                   pipeline_vars, call>>

\* the steps of the main thread
OrchMain ==
    \/ start_heartbeat
    \/ cleanup_redis
    \/ \E outcome \in StartOutcomes : start_workers(outcome)
    \/ \E ok \in BOOLEAN : start_aggregator(ok)
    \/ \E outcome \in StartOutcomes : start_monitor(outcome)
    \/ \E outcome \in StartOutcomes : start_ingress(outcome)
    \/ monitor_system
    \/ stop_all_enter
    \/ \E how \in StopOutcomes : stop_all_next(how)
    \/ stop_all_return

OrchNext ==
    \/ OrchMain
    \/ signal_handler
    \/ \E name \in ChildNames : ChildExits(name)

OrchSpec == OrchInit /\ [][OrchNext]_vars

\* where heartbeat_loop is after the try statement around requests.post
\* mutant: a post that raised ends the loop
AfterPost_FailureEnds(ok) == IF ok THEN "sleep" ELSE "off"

AfterPost(ok) == "sleep"

\* heartbeat_loop, the try statement: requests.post(..., timeout=5) returns
\* (ok) or raises, which the handler prints.  The thread is a daemon: it
\* runs as long as the process does.
heartbeat_post(ok) ==
    /\ orch_pc # "exited"
    /\ heartbeat.pc = "post"
    /\ heartbeat' = [pc |-> AfterPost(ok), last |-> IF ok THEN "ok" ELSE "failed"]
    /\ UNCHANGED <<orch_vars, call, ingress_vars, central_url, flaky, bus_up,
                   prior, groups, acks, worker_vars, agg_vars, results, faults,
                   xack_raised>>

\* heartbeat_loop: time.sleep(10) returns
heartbeat_sleep ==
    /\ orch_pc # "exited"
    /\ heartbeat.pc = "sleep"
    /\ heartbeat' = [heartbeat EXCEPT !.pc = "post"]
    /\ UNCHANGED <<orch_vars, call, ingress_vars, central_url, flaky, bus_up,
                   prior, groups, acks, worker_vars, agg_vars, results, faults,
                   xack_raised>>

heartbeat_loop ==
    \/ \E ok \in BOOLEAN : heartbeat_post(ok)
    \/ heartbeat_sleep

\* the orchestrator with its heartbeat thread, on a reachable bus no run has
\* used
BeatInit == OrchInit /\ bus_up /\ ~prior

BeatNext ==
    \/ OrchNext
    \/ heartbeat_loop

BeatSpec == BeatInit /\ [][BeatNext]_vars

\* the heartbeat thread is scheduled: the post has a timeout and the sleep
\* ends
BeatLiveSpec == BeatSpec /\ WF_vars(heartbeat_loop)

\* An exception leaves the loop of stop_all (a print to a closed stdout, a
\* lookup of the pid that fails): it passes through run() to the handler of
\* the script, which calls stop_all() again and then sys.exit(1).
stop_all_raises ==
    /\ orch_pc = "stop_all"
    /\ orch_i \in 1..Len(shutdown_order)
    /\ orch_i' = 0
    /\ after_stop' = "sys.exit(1)"
    /\ UNCHANGED <<orch_pc, processes, agg_thread, shutdown_requested, dead,
                   exit_code, interrupted, stage_log, stop_log, pipeline_vars, call>>

\* the orchestrator when an exception may leave stop_all, on a reachable bus
\* no run has used
StopInit == OrchInit /\ bus_up /\ ~prior

StopNext ==
    \/ OrchNext
    \/ stop_all_raises

StopSpec == StopInit /\ [][StopNext]_vars

\* The main thread is never blocked for good: every wait of run() and of
\* stop_all() is a sleep or a wait with a timeout.
OrchLiveSpec == OrchSpec /\ WF_vars(OrchMain)

\* ------------------------------------------------- calls of pure functions
\* longest argument, in tokens
MaxLen == 4

Tokens == {"car", "motorcycle", "bus", "truck", "auto", "Red", "#FF0000",
           "unknown", "|", " "}

\* the strings of at most n tokens
Strings(n) == UNION {[1..k -> Tokens] : k \in 0..n}

FnInit ==
    /\ PipelineInit
    /\ ~flaky
    /\ Started
    /\ call \in {[fn |-> "none", arg |-> a, ret |-> None] : a \in Strings(MaxLen)}

Call_get_expected_workers ==
    /\ call.fn = "none"
    /\ call' = [fn |-> "get_expected_workers", arg |-> call.arg,
                ret |-> get_expected_workers(call.arg)]
    /\ UNCHANGED <<pipeline_vars, orch_vars>>

\* the values on the bus are str (decode_responses=True)
Call_parse_color_result ==
    /\ call.fn = "none"
    /\ call' = [fn |-> "parse_color_result", arg |-> call.arg,
                ret |-> parse_color_result(call.arg)]
    /\ UNCHANGED <<pipeline_vars, orch_vars>>

FnNext ==
    \/ Call_get_expected_workers
    \/ Call_parse_color_result

FnSpec == FnInit /\ [][FnNext]_vars

\* ------------------------------------------- Ingress on arbitrary frames
\* track ids the tracker hands out
MaxTracks == 2

\* one detection of one frame: <<track id, class name, bottom centre of the
\* box inside the trigger zone, the crop is not empty, the keyframe was
\* written, a plate was found and written>>
Detections ==
    (1..MaxTracks) \X VehicleTypes \X BOOLEAN \X BOOLEAN \X BOOLEAN \X BOOLEAN

\* saved_ids after saved_ids.add(track_id)
\* mutant: the track id is not remembered
Remember_Nothing(track_id) == saved_ids

Remember(track_id) == saved_ids \cup {track_id}

\* what the body of the detection loop does with detection d
Sighting(d) ==
    IF ~d[3] THEN "outside"
    ELSE IF d[1] \in saved_ids THEN "seen"
    ELSE IF ~d[4] THEN "empty crop"
    ELSE IF ~d[5] THEN "not saved"
    ELSE "published"

\* the body of the detection loop for one box
IngressFrame(d) ==
    /\ call' = [fn |-> "frame", arg |-> d, ret |-> Sighting(d)]
    /\ saved_ids' = IF d[3] /\ d[1] \notin saved_ids THEN Remember(d[1]) ELSE saved_ids
    /\ jobs' = IF Sighting(d) = "published"
               THEN Append(jobs,
                        JobPayload(d[2], OrganizedPath(d[1]), d[1], VehicleId(d[2], d[1]),
                                   IF d[6] THEN PlatePathOf(d[1]) ELSE None))
               ELSE jobs
    /\ UNCHANGED <<worker_vars, results, agg_vars, env_vars, orch_vars, xack_raised, faults>>

IngressInit == PipelineInit /\ ~flaky /\ Started /\ NoCall

IngressNext == \E d \in Detections : IngressFrame(d)

IngressSpec == IngressInit /\ [][IngressNext]_vars

\* ------------------------------------- the aggregator on arbitrary Results
\* longest vehicle_results stream the aggregator is started on
MaxMsgs == 2

\* a job of a bus: its ocr Result alone completes it
BusJob == JobPayload("bus", OrganizedPath(3), 3, VehicleId("bus", 3), None)

\* frame_path and plate_path of a Result as f.get returns them: None for a
\* missing field, the empty string, the string "None", or a path
FramePaths == {None, <<>>, <<"None">>, OrganizedPath(3), OrganizedPath(4)}

PlatePaths == {None, PlatePathOf(3), PlatePathOf(4)}

\* Results of the ocr and logo workers for BusJob with any of these paths
Msgs ==
    {[job_id |-> BusJob.job_id, vehicle_id |-> BusJob.vehicle_id, worker |-> w,
      result |-> IF w = "ocr" THEN <<"KA01AB1234">> ELSE <<"Toyota">>,
      status |-> "ok", frame_path |-> fp, plate_path |-> pp] :
        w \in {"ocr", "logo"}, fp \in FramePaths, pp \in PlatePaths}

\* the aggregator starts on a stream that holds up to MaxMsgs such Results
AggInit ==
    /\ bus_up = TRUE
    /\ prior = FALSE
    /\ AtLoopHeads
    /\ ~flaky
    /\ jobs = <<>>
    /\ w_cursor = [w \in Workers |-> 0]
    /\ w_pel = [w \in Workers |-> {}]
    /\ results \in UNION {[1..n -> Msgs] : n \in 0..MaxMsgs}
    /\ agg_cursor = 0
    /\ agg_pel = {}
    /\ groups = consumer_groups
    /\ acks = NoAcks
    /\ Started
    /\ NoCall

AggNext ==
    \/ AggRead
    \/ \E response \in Responses : AggHandle(response)

AggSpec == AggInit /\ [][AggNext]_vars

\* ------------------------------------------------------------------ claims
\* ExpectedWorkerSet of the data model: car -> {ocr,color,logo};
\* motorcycle -> {ocr,violation}; all others -> {ocr}
ExpectedWorkerSet(vehicle_type) ==
    CASE vehicle_type = <<"car">> -> {"ocr", "color", "logo"}
      [] vehicle_type = <<"motorcycle">> -> {"ocr", "violation"}
      [] OTHER -> {"ocr"}

\* the vehicle type a job_id starts with
TypeOf(job_id) == SplitHead(job_id, "_")

\* entries of the Result Bus acknowledged in the aggregator group
AggAcked == (1..agg_cursor) \ agg_pel

\* calls of report_to_central for job_id that returned True
OkUploads(job_id) ==
    {k \in DOMAIN uploads : uploads[k].ok /\ uploads[k].job_id = job_id}

\* the aggregator handles the next message of its batch in this step
AggHandles == agg_batch # <<>> /\ agg_batch' # agg_batch

\* report_to_central is called in this step
UploadCalled == Len(uploads') = Len(uploads) + 1

\* workers whose Result is merged for job_id
MergedWorkers(job_id) ==
    IF job_id \in DOMAIN pending_jobs THEN DOMAIN pending_jobs[job_id].results ELSE {}

\* C1: at most one record is successfully uploaded per job_id, whatever
\* Results (late, duplicate) reach the aggregator.
C1_AtMostOneUploadPerJob ==
    \A k1, k2 \in DOMAIN uploads :
        (uploads[k1].ok /\ uploads[k2].ok /\ uploads[k1].job_id = uploads[k2].job_id)
            => k1 = k2

C3_AckEvictOnlyAfterSuccess ==
    /\ \A i \in AggAcked :
           \E k \in DOMAIN uploads : uploads[k].ok /\ uploads[k].msg_id = i
    /\ \A n \in DOMAIN evicted :
           Cardinality({m \in 1..n : evicted[m] = evicted[n]})
               <= Cardinality(OkUploads(evicted[n]))

\* C3 witness: after a failed upload, a message was acknowledged and an
\* entry evicted.
C3_Witness ==
    /\ AggAcked # {}
    /\ evicted # <<>>
    /\ \E k \in DOMAIN uploads : ~uploads[k].ok

\* C4: a failed upload leaves the entry intact and the triggering message
\* unacknowledged; a later successful upload for the same job removes the
\* entry and acknowledges that triggering message.
C4_FailureRetainsSuccessAcks ==
    [][UploadCalled =>
         LET u == uploads'[Len(uploads')]
         IN IF ~u.ok
            THEN /\ u.job_id \in DOMAIN pending_jobs'
                 /\ DOMAIN pending_jobs'[u.job_id].results = u.keys
                 /\ pending_jobs'[u.job_id].frame_path = u.frame_path
                 /\ u.msg_id \in agg_pel'
            ELSE \A k \in DOMAIN uploads :
                    (uploads[k].job_id = u.job_id /\ ~uploads[k].ok)
                        => /\ u.job_id \notin DOMAIN pending_jobs'
                           /\ uploads[k].msg_id \notin agg_pel']_vars

\* C5: once the uploader returned true for a job, every Result message of
\* the job consumed so far is acknowledged in the aggregator group (stated
\* for the runs in which no bus call raised).
C5_AllMessagesOfJobAcked ==
    \A k \in DOMAIN uploads :
        (uploads[k].ok /\ faults = 0) =>
            \A i \in 1..uploads[k].msg_id :
                results[i].job_id = uploads[k].job_id => i \notin agg_pel

\* worker w has read entry i of the Job Bus and finished handling it
Handled(w, i) == i <= w_cursor[w] /\ w_msg[w] # i

\* the Results on the bus published by worker w for the job of entry i
ResultsOf(w, i) ==
    {k \in DOMAIN results :
        results[k].worker = w /\ results[k].job_id = jobs[i].job_id}

\* the safe default payload of each worker class
SafeDefault(w) ==
    CASE w = "ocr" -> <<"N/A">>
      [] w = "color" -> <<"unknown", "|", "#000000">>
      [] w = "logo" -> <<"Unknown">>
      [] w = "violation" -> <<"0">>

\* the vehicle types relevant to each worker class
RelevantTypes(w) ==
    CASE w = "ocr" -> {<<"car">>, <<"bus">>, <<"motorcycle">>, <<"truck">>, <<"auto">>}
      [] w = "color" -> {<<"car">>}
      [] w = "logo" -> {<<"car">>}
      [] w = "violation" -> {<<"motorcycle">>}

\* C6: a relevant job a worker has finished handling is not left in the
\* pending list of its group, and when the processing function raised, the
\* worker published the status=error Result with the safe default of its
\* class (stated for the runs in which no bus call raised).
C6_ErrorResultThenAck ==
    faults = 0 =>
        \A w \in Workers : \A i \in DOMAIN jobs :
            (Handled(w, i) /\ jobs[i].vehicle_type \in RelevantTypes(w)) =>
                /\ i \notin w_pel[w]
                /\ [worker |-> w, msg_id |-> i, outcome |-> Raise] \in proc_log
                     => \E k \in ResultsOf(w, i) :
                            /\ results[k].status = "error"
                            /\ results[k].result = SafeDefault(w)

\* C7: the Result Bus never holds two Results with the same (job_id, worker).
C7_OneResultPerJobAndWorker ==
    \A k1, k2 \in DOMAIN results :
        (results[k1].job_id = results[k2].job_id
            /\ results[k1].worker = results[k2].worker) => k1 = k2

\* C8: when the processing function returned normally for a job, every
\* Result the worker published for the job has status=ok and carries the
\* returned payload (stated for the runs in which no bus call raised).
C8_ReturnedPayloadPublishedOk ==
    faults = 0 =>
        \A p \in proc_log :
            p.outcome # Raise =>
                \A k \in ResultsOf(p.worker, p.msg_id) :
                    results[k].status = "ok" /\ results[k].result = p.outcome

\* C9: every Result on the bus carries the frame_path and plate_path of the
\* Job it answers.
C9_ResultsEchoPaths ==
    \A k \in DOMAIN results :
        \E i \in DOMAIN jobs :
            /\ jobs[i].job_id = results[k].job_id
            /\ results[k].frame_path = jobs[i].frame_path
            /\ results[k].plate_path = jobs[i].plate_path

\* C10: for a job that is not relevant to its class, a worker never invokes
\* the processing function and never publishes a Result, and the job leaves
\* the pending list of the group unless the xack call itself raised.
C10_IrrelevantJobAckedUntouched ==
    \A w \in Workers : \A i \in 1..w_cursor[w] :
        jobs[i].vehicle_type \notin RelevantTypes(w) =>
            /\ \A p \in proc_log : ~(p.worker = w /\ p.msg_id = i)
            /\ ResultsOf(w, i) = {}
            /\ i \in w_pel[w] => <<w, i>> \in xack_raised

\* C10 witness: the color worker read a motorcycle job and acknowledged it.
C10_Witness ==
    \E i \in 1..w_cursor["color"] :
        /\ jobs[i].vehicle_type = <<"motorcycle">>
        /\ i \notin w_pel["color"]
        /\ ResultsOf("color", i) = {}

\* worker w published a Result for the job of entry i
Published(w, i) == ResultsOf(w, i) # {}

\* the aggregator found the job of entry i complete: it called the uploader
\* with every expected worker merged
PassedCompletion(i) ==
    \E k \in DOMAIN uploads :
        /\ uploads[k].job_id = jobs[i].job_id
        /\ ExpectedWorkerSet(jobs[i].vehicle_type) \subseteq uploads[k].keys

\* C11: on a bus that stays reachable and with the workers and the
\* aggregator running fairly, for every Job on the Job Bus each worker in
\* ExpectedWorkerSet(vehicle_type) eventually publishes a Result, also when
\* its processing function raises, and the aggregator eventually finds the
\* job complete.  Results and uploads are never taken back, so this is: again
\* and again, every Job that is on the bus has all of that.
C11_ExpectedResultsEventuallyComplete ==
    []<>(~flaky =>
            \A i \in DOMAIN jobs :
                /\ \A w \in ExpectedWorkerSet(jobs[i].vehicle_type) : Published(w, i)
                /\ PassedCompletion(i))

\* C11 witness: process_logo raised on a car job, the logo worker published
\* its status=error Result and the aggregator found the job complete.
C11_Witness ==
    \E i \in DOMAIN jobs :
        /\ ~flaky
        /\ jobs[i].vehicle_type = <<"car">>
        /\ [worker |-> "logo", msg_id |-> i, outcome |-> Raise] \in proc_log
        /\ \E k \in ResultsOf("logo", i) : results[k].status = "error"
        /\ PassedCompletion(i)

\* entries among the first n of the Result Bus that answer job_id
ArrivedUpTo(job_id, n) == {k \in 1..n : results[k].job_id = job_id}

\* workers whose Result for job_id is among the first n entries
WorkersUpTo(job_id, n) == {results[k].worker : k \in ArrivedUpTo(job_id, n)}

\* payloads worker w sent for job_id among the first n entries
PayloadsUpTo(job_id, w, n) ==
    {results[k].result : k \in {a \in ArrivedUpTo(job_id, n) : results[a].worker = w}}

\* the part of an emitted record that worker w accounts for, as a payload
FieldOf(d, w) ==
    CASE w = "ocr" -> d.vehicle_number
      [] w = "color" -> d.color \o <<"|">> \o d.color_hex
      [] w = "logo" -> d.model
      [] w = "violation" -> StrOfCode(d.violation_type)

\* C12: whatever the order in which the Results of a job arrive, the
\* aggregator triggers completion exactly on the arrival that brings the
\* last missing expected worker, and each expected worker's part of the
\* emitted record is the payload that worker sent, wherever in the order it
\* arrived (stated for the runs in which no bus call raised, where each
\* worker answers a job once).
C12_CompletionAtLastExpectedAnyOrder ==
    [][(AggHandles /\ faults = 0) =>
         LET m == Head(agg_batch)
             job_id == results[m].job_id
             expected == ExpectedWorkerSet(TypeOf(job_id))
         IN /\ UploadCalled <=>
                  /\ expected \subseteq WorkersUpTo(job_id, m)
                  /\ ~(expected \subseteq WorkersUpTo(job_id, m - 1))
            /\ UploadCalled =>
                  \A w \in expected :
                      PayloadsUpTo(job_id, w, m)
                          = {FieldOf(uploads'[Len(uploads')].job_data, w)}]_vars

\* C12 witness: two car jobs were completed by different last arrivals (the
\* logo Result for one, the ocr Result for the other) and their records
\* agree on vehicle_number, color, model and violation_type.
C12_Witness ==
    \E k1, k2 \in DOMAIN uploads :
        /\ faults = 0
        /\ uploads[k1].job_id # uploads[k2].job_id
        /\ TypeOf(uploads[k1].job_id) = <<"car">>
        /\ TypeOf(uploads[k2].job_id) = <<"car">>
        /\ results[uploads[k1].msg_id].worker = "logo"
        /\ results[uploads[k2].msg_id].worker = "ocr"
        /\ \A w \in Workers :
               FieldOf(uploads[k1].job_data, w) = FieldOf(uploads[k2].job_data, w)

\* the first n entry ids of a stream, in append order
FirstIds(n) == [k \in 1..n |-> k]

\* C13: each of the four worker groups is handed the entries of the Job Bus
\* one by one in append order, none twice and none left out, and whenever a
\* worker is at its read with entries it has not been handed yet, the next
\* one can be handed to it whatever the other groups have read or
\* acknowledged.
C13_EachGroupGetsEachJobOnceInOrder ==
    \A w \in Workers :
        /\ Len(delivered[w]) <= Len(jobs)
        /\ delivered[w] = FirstIds(Len(delivered[w]))
        /\ (w_pc[w] = "read" /\ Len(delivered[w]) < Len(jobs))
               => ENABLED (WorkerStep(w) /\ Len(delivered'[w]) = Len(delivered[w]) + 1)

\* C13 witness: the ocr group has been handed both Jobs while the color
\* group has been handed none and the logo group holds the first one
\* unacknowledged.
C13_Witness ==
    /\ Len(jobs) = 2
    /\ delivered["ocr"] = <<1, 2>>
    /\ delivered["color"] = <<>>
    /\ delivered["logo"] = <<1>>
    /\ w_pel["logo"] = {1}
    /\ w_pel["ocr"] = {}

C15_ExpectedWorkersByType ==
    call.fn = "get_expected_workers" =>
        /\ call.ret # {}
        /\ "ocr" \in call.ret
        /\ call.ret = ExpectedWorkerSet(call.arg)

\* C15 witness: get_expected_workers("motorcycle") returned {ocr, violation}.
C15_Witness ==
    /\ call.fn = "get_expected_workers"
    /\ call.arg = <<"motorcycle">>
    /\ call.ret = {"ocr", "violation"}

\* position of the first '|' of s
FirstBar(s) ==
    CHOOSE p \in 1..Len(s) : s[p] = "|" /\ \A q \in 1..(p - 1) : s[q] # "|"

HasBar(s) == \E p \in 1..Len(s) : s[p] = "|"

\* s cut at its first '|' into (name, hex); without a '|', s whole and
\* "#000000"
CutAtFirstBar(s) ==
    IF HasBar(s)
    THEN <<SubSeq(s, 1, FirstBar(s) - 1), SubSeq(s, FirstBar(s) + 1, Len(s))>>
    ELSE <<s, <<"#000000">>>>

\* s from its first to its last token that is not a blank
Trim(s) ==
    LET solid == {i \in 1..Len(s) : s[i] # " "}
    IN IF solid = {} THEN <<>>
       ELSE SubSeq(s, CHOOSE i \in solid : \A j \in solid : i <= j,
                      CHOOSE i \in solid : \A j \in solid : i >= j)

\* C16, as stated: parse_color_result returns the payload cut at its first
\* '|' into (name, hex), and a payload without '|' whole as the name with
\* hex "#000000".
C16_CutAtFirstBar ==
    call.fn = "parse_color_result" => call.ret = CutAtFirstBar(call.arg)

\* C16, amended: parse_color_result returns the payload cut at its first '|'
\* into (name, hex), or the payload whole with hex "#000000" when it has no
\* '|', with the blanks at both ends of name and of hex removed;
\* parse("Red|#FF0000") = ("Red","#FF0000"), parse("unknown") =
\* ("unknown","#000000"), parse("") = ("","#000000").
C16_CutAtFirstBarAndTrimmed ==
    call.fn = "parse_color_result" =>
        /\ call.ret = <<Trim(CutAtFirstBar(call.arg)[1]), Trim(CutAtFirstBar(call.arg)[2])>>
        /\ call.arg = <<"Red", "|", "#FF0000">> => call.ret = << <<"Red">>, <<"#FF0000">> >>
        /\ call.arg = <<"unknown">> => call.ret = << <<"unknown">>, <<"#000000">> >>
        /\ call.arg = <<>> => call.ret = << <<>>, <<"#000000">> >>

\* C16 witness: parse_color_result("Red |#FF0000") returned
\* ("Red", "#FF0000"): cut at the '|', the blank before it removed.
C16_Witness ==
    /\ call.fn = "parse_color_result"
    /\ call.arg = <<"Red", " ", "|", "#FF0000">>
    /\ call.ret = << <<"Red">>, <<"#FF0000">> >>

\* no child the orchestrator started is running
AllChildrenExited == \A name \in DOMAIN processes : processes[name] # "running"

\* the orchestrator process has ended with a non-zero status
ExitedNonZero == orch_pc = "exited" /\ exit_code # 0

\* C17: once the monitor has found Ingress dead, the orchestrator reaches
\* its end with every child it started terminated and a non-zero exit
\* status (stated for the runs in which no SIGINT arrives meanwhile).
C17_IngressDeathStopsAllExitsNonZero ==
    ("Ingress" \in dead) ~> (interrupted \/ (ExitedNonZero /\ AllChildrenExited))

\* C17 witness: the monitor found only Ingress dead, stop_all ended the
\* five children that were still alive and the process exited with code 1.
C17_Witness ==
    /\ dead = {"Ingress"}
    /\ ~interrupted
    /\ orch_pc = "exited"
    /\ exit_code = 1
    /\ DOMAIN processes = ChildNames
    /\ AllChildrenExited
    /\ \A name \in ChildNames \ {"Ingress"} :
           \E k \in DOMAIN stop_log :
               stop_log[k].name = name /\ stop_log[k].how = "graceful"

\* stage has begun / has reported success
Begun(stage) == \E k \in DOMAIN stage_log : stage_log[k].stage = stage

Succeeded(stage) ==
    \E k \in DOMAIN stage_log : stage_log[k].stage = stage /\ stage_log[k].ok

WorkerNames == {"OCR Worker", "Color Worker", "Logo Worker", "Violation Worker"}

\* C18: startup is ordered and gated: no worker is started before the bus
\* reset has returned, the aggregator not before all four workers are
\* started, the monitor not before the aggregator, Ingress not before
\* workers, aggregator and monitor, and no stage begins unless every stage
\* before it reported success.
C18_StartupOrderedAndGated ==
    /\ \A k \in DOMAIN stage_log : \A j \in 1..(k - 1) : stage_log[j].ok
    /\ \A w \in WorkerNames :
           (Begun(w) \/ w \in DOMAIN processes) => Succeeded("Redis cleanup")
    /\ (Begun("Aggregator") \/ agg_thread) => \A w \in WorkerNames : Succeeded(w)
    /\ (Begun("Monitor") \/ "Monitor" \in DOMAIN processes) => Succeeded("Aggregator")
    /\ (Begun("Ingress") \/ "Ingress" \in DOMAIN processes) =>
           /\ \A w \in WorkerNames : Succeeded(w)
           /\ Succeeded("Aggregator")
           /\ Succeeded("Monitor")

\* C18 witness: Ingress was started after the bus reset, the four workers,
\* the aggregator and the monitor, each of which reported success.
C18_Witness ==
    /\ "Ingress" \in DOMAIN processes
    /\ Succeeded("Ingress")
    /\ Len(stage_log) = 9
    /\ orch_pc = "monitor_system"

\* a startup stage reported failure
StartupFailed == \E k \in DOMAIN stage_log : ~stage_log[k].ok

\* C19: after a stage of the startup has failed no further stage begins,
\* and when the orchestrator process has ended no child it had started is
\* running (stated for the runs in which no SIGINT arrives).
C19_FailedStartupLeavesNoChild ==
    /\ \A k \in DOMAIN stage_log : ~stage_log[k].ok => k = Len(stage_log)
    /\ (StartupFailed /\ orch_pc = "exited" /\ ~interrupted) => AllChildrenExited

\* C19 witness: the start of Ingress failed with four workers and the
\* monitor running; stop_all ended the five of them before the process
\* ended.
C19_Witness ==
    /\ ~Succeeded("Ingress") /\ Begun("Ingress")
    /\ ~interrupted
    /\ orch_pc = "exited"
    /\ AllChildrenExited
    /\ \A name \in WorkerNames \cup {"Monitor"} :
           \E k \in DOMAIN stop_log :
               stop_log[k].name = name /\ stop_log[k].how = "graceful"

\* C20: when a startup stage has failed, the orchestrator process ends with
\* a non-zero exit status (stated for the runs in which no SIGINT arrives).
C20_FailedStartupExitsNonZero ==
    (StartupFailed /\ orch_pc = "exited" /\ ~interrupted) => exit_code # 0


\* the stage cleanup_redis reported failure to run()
CleanupFailed ==
    \E k \in DOMAIN stage_log : stage_log[k] = [stage |-> "Redis cleanup", ok |-> FALSE]

\* C21: when the bus is unreachable while cleanup_redis runs (every delete
\* and every xgroup_create raises), the stage is treated as failed and no
\* worker, aggregator, monitor or ingress is ever started.
C21_UnreachableBusStartsNothing ==
    (~bus_up /\ Begun("Redis cleanup")) =>
        (CleanupFailed /\ DOMAIN processes = {} /\ ~agg_thread)

\* a step that starts a worker, Ingress or the aggregator thread
StartsConsumer ==
    \/ (DOMAIN processes' \ DOMAIN processes) \cap (WorkerNames \cup {"Ingress"}) # {}
    \/ ~agg_thread /\ agg_thread'

\* C22: on a reachable bus, at the moment a worker, the aggregator or Ingress
\* starts, the three streams are empty and each of the six {stream, group}
\* pairs exists with an empty pending list, whatever an earlier run left.
C22_ConsumersStartOnCleanBus ==
    [][(bus_up /\ StartsConsumer) => BusClean]_vars

C22_Witness ==
    /\ prior
    /\ bus_up
    /\ "OCR Worker" \in DOMAIN processes
    /\ agg_thread
    /\ "Ingress" \in DOMAIN processes
    /\ BusClean

\* the entries xreadgroup(AGGREGATOR_GROUP, ..., {VEHICLE_RESULTS_STREAM: ">"})
\* can return: those after the last one delivered to the group
AggNew == (agg_cursor + 1)..Len(results)

\* C28: the Result an earlier run left unacknowledged after a failed upload
\* can be delivered to the aggregator once the aggregator runs again.
C28_UnackedResultRedeliveredAfterRestart ==
    (prior /\ agg_thread) =>
        \E m \in AggNew : results[m] = OkResult("ocr", PriorJob, <<"KA01AB1234">>)

\* the SIGINT arrived while the main thread was polling in monitor_system
InterruptedWhileRunning ==
    interrupted /\ Succeeded("Ingress") /\ after_stop = "none"

\* C23: after a SIGINT received in RUNNING the process exits with code 0
\* only once stop_all has run and every child is terminated.
C23_InterruptStopsAllBeforeExit ==
    (InterruptedWhileRunning /\ orch_pc = "exited" /\ exit_code = 0) =>
        (shutdown_requested /\ AllChildrenExited)

\* stop_all takes a running child out of the running state in this step
StopAllEnds(name) ==
    /\ orch_pc = "stop_all"
    /\ stop_log' # stop_log
    /\ name \in DOMAIN processes
    /\ processes[name] = "running"
    /\ processes'[name] # "running"

\* C24: stop_all stops Ingress first, and no worker is signalled by it
\* while Ingress or the Monitor is still running.
C24_ProducerStoppedBeforeConsumers ==
    /\ [][\A w \in WorkerNames :
            StopAllEnds(w) =>
                \A p \in {"Ingress", "Monitor"} \cap DOMAIN processes :
                    processes[p] # "running"]_vars
    /\ []((stop_log # <<>> /\ "Ingress" \in DOMAIN processes) =>
              stop_log[1].name = "Ingress")

\* the children the loop of stop_all is through with
Passed ==
    {shutdown_order[k] : k \in 1..(IF orch_pc = "stop_all" /\ orch_i > 0
                                   THEN orch_i - 1 ELSE 0)} \cap DOMAIN processes

\* C25: a child stop_all is through with is not running (it ended in the
\* graceful wait or was sent SIGKILL), a child is reported as successfully
\* stopped only when its pid is gone, and stop_all comes to an end.
C25_StopAllKillsReportsAndEnds ==
    /\ [](\A name \in Passed : processes[name] # "running")
    /\ [](\A k \in DOMAIN stop_log :
              stop_log[k].report = "successfully stopped" =>
                  ~is_pid_alive(processes[stop_log[k].name]))
    /\ (shutdown_requested ~> orch_pc = "exited")

\* C25 witness: stop_all ended one child in the graceful wait and reported it
\* stopped, sent SIGKILL to another and reported it still running, and
\* returned.
C25_Witness ==
    /\ orch_pc = "exited"
    /\ ~interrupted
    /\ \E k \in DOMAIN stop_log :
           stop_log[k].how = "kill" /\ stop_log[k].report = "still running after cleanup"
    /\ \E k \in DOMAIN stop_log :
           stop_log[k].how = "graceful" /\ stop_log[k].report = "successfully stopped"
    /\ \A name \in DOMAIN processes : processes[name] # "running"

\* the step is one of worker w in which a bus call raised
FaultOf(w) ==
    /\ faults' > faults
    /\ \/ w_cursor'[w] # w_cursor[w]
       \/ w_pc'[w] # w_pc[w]
       \/ w_slept'[w] # w_slept[w]

\* an iteration of w in which an exception was raised ends in this step:
\* the except branch is left, or a bus call raised outside the try branch
RaisedIterationEnds(w) ==
    \/ w_pc[w] = "except" /\ w_pc'[w] # "except"
    \/ w_pc[w] = "read" /\ w_pc'[w] # "except" /\ FaultOf(w)

\* a worker that has left its loop had its flag set
LoopEndsOnlyOnFlag == \A w \in Workers : w_pc[w] = "done" => shutdown_event[w]

\* C26 as stated: the loop ends only when the flag is set, and every
\* iteration in which an exception was raised (by the read, a publish, an
\* acknowledge or the handling of the message) ends with a backoff sleep.
C26_EveryExceptionCaughtThenSleep ==
    /\ []LoopEndsOnlyOnFlag
    /\ [][\A w \in Workers :
            RaisedIterationEnds(w) => w_slept'[w] = w_slept[w] + 1]_vars

\* C26: the loop ends only when the flag is set; an exception raised in the
\* try branch takes the worker into the except branch of the message, which
\* publishes a status=error Result, and the loop goes on without a sleep;
\* an exception raised by the read, by the acknowledge of the else branch
\* or inside the except branch ends the iteration with the backoff sleep.
C26_EveryExceptionCaughtLoopGoesOn ==
    /\ []LoopEndsOnlyOnFlag
    /\ [][\A w \in Workers :
            RaisedIterationEnds(w) =>
                /\ w_pc'[w] = (IF shutdown_event[w] THEN "done" ELSE "read")
                /\ IF FaultOf(w)
                   THEN w_slept'[w] = w_slept[w] + 1
                   ELSE /\ w_slept'[w] = w_slept[w]
                        /\ Len(results') = Len(results) + 1
                        /\ results'[Len(results')].worker = w
                        /\ results'[Len(results')].status = "error"]_vars

\* C26 witness: the except branch of logo_worker published its Result with
\* no sleep, another worker slept once after a bus call raised, and both
\* are in their loops, no flag being set.
C26_Witness ==
    /\ \A w \in Workers : ~shutdown_event[w] /\ w_pc[w] = "read"
    /\ w_slept["logo"] = 0
    /\ \E k \in DOMAIN results :
           results[k].worker = "logo" /\ results[k].status = "error"
    /\ \E w \in Workers : w_slept[w] = 1

\* the jobs w was handed and has published a Result for
Answered(w) == {m \in 1..Len(jobs) : ResultsOf(w, m) # {}}

\* the jobs w was handed that are relevant to its class
RelevantRead(w) ==
    {delivered[w][k] : k \in DOMAIN delivered[w]} \cap
        {m \in 1..Len(jobs) : should_worker_process(w, jobs[m].vehicle_type)}

\* no bus call of w raised
NoFaultOf(w) == w_slept[w] = 0 /\ \A m \in 1..Len(jobs) : <<w, m>> \notin xack_raised

\* C27: a worker whose flag is set finishes the job it had read (the Result
\* is published and the job acknowledged, bus errors aside), reads no job
\* once it has left the loop, and leaves the loop.
C27_FlagLetsJobFinishThenLoopEnds ==
    /\ [](\A w \in Workers :
              (w_pc[w] = "done" /\ NoFaultOf(w)) =>
                  (w_pel[w] = {} /\ RelevantRead(w) \subseteq Answered(w)))
    /\ [][\A w \in Workers : w_pc[w] = "done" =>
              (delivered'[w] = delivered[w] /\ w_pc'[w] = "done")]_vars
    /\ \A w \in Workers : shutdown_event[w] ~> (w_pc[w] = "done")

\* a stored frame_path that is missing, empty or the "None" string
NoFramePath(path) == path \in {None, <<>>, <<"None">>}

\* the call of report_to_central made in this step
ThisUpload == uploads'[Len(uploads')]

\* C29: when a job passes the completion test with a stored frame_path that
\* is missing, empty or "None", no upload request is sent, the entry stays
\* pending with the merged results and nothing is acknowledged; when the
\* message that completes the job supplies a frame path, the request is
\* sent with that path.
C29_NoFramePathSkipsUpload ==
    [][UploadCalled =>
         LET f == results[Head(agg_batch)]
         IN /\ NoFramePath(ThisUpload.frame_path) =>
                  /\ ~ThisUpload.sent
                  /\ ~ThisUpload.ok
                  /\ agg_pel' = agg_pel
                  /\ evicted' = evicted
                  /\ f.job_id \in DOMAIN pending_jobs'
                  /\ DOMAIN pending_jobs'[f.job_id].results = ThisUpload.keys
                  /\ \A w \in ThisUpload.keys \ {f.worker} :
                         pending_jobs'[f.job_id].results[w] =
                             pending_jobs[f.job_id].results[w]
            /\ ~NoFramePath(f.frame_path) =>
                  (ThisUpload.sent /\ ThisUpload.frame_path = f.frame_path)]_vars

\* C29 witness: the ocr Result of the job came without frame_path and the
\* upload was skipped; a second Result of the job brought a path and the
\* upload was accepted.
C29_Witness ==
    /\ Len(uploads) = 2
    /\ ~uploads[1].sent /\ uploads[1].frame_path = None
    /\ uploads[2].sent /\ uploads[2].ok
    /\ uploads[2].job_id = uploads[1].job_id
    /\ uploads[2].frame_path = OrganizedPath(4)
    /\ agg_pel = {1}

\* the entry of job_id after this step: the stored one or, when the step
\* evicted it, the one handed to report_to_central
MergedEntry(job_id) ==
    IF job_id \in DOMAIN pending_jobs'
    THEN [frame_path |-> pending_jobs'[job_id].frame_path,
          plate_path |-> pending_jobs'[job_id].plate_path,
          keys |-> DOMAIN pending_jobs'[job_id].results]
    ELSE [frame_path |-> ThisUpload.frame_path,
          plate_path |-> ThisUpload.plate_path,
          keys |-> ThisUpload.keys]

\* C30: merging a Result into an existing entry replaces the stored
\* frame_path (plate_path) by the one the message supplies, keeps the stored
\* one when the message supplies none, and keeps every worker key of results.
C30_MergeRefreshesPathsKeepsKeys ==
    [][(AggHandles /\ results[Head(agg_batch)].job_id \in DOMAIN pending_jobs) =>
         LET f == results[Head(agg_batch)]
             old == pending_jobs[f.job_id]
             new == MergedEntry(f.job_id)
         IN /\ new.frame_path = IF Truthy(f.frame_path) THEN f.frame_path
                                ELSE old.frame_path
            /\ new.plate_path = IF Truthy(f.plate_path) THEN f.plate_path
                                ELSE old.plate_path
            /\ DOMAIN old.results \subseteq new.keys
            /\ f.worker \in new.keys]_vars

\* C30 witness: the logo Result created the entry with one pair of paths,
\* the ocr Result brought another frame path and no plate path; the upload
\* failed, so the merged entry is still there.
C30_Witness ==
    /\ Len(results) = 2
    /\ results[1].worker = "logo" /\ results[2].worker = "ocr"
    /\ results[1].frame_path = OrganizedPath(3)
    /\ results[1].plate_path = PlatePathOf(3)
    /\ results[2].frame_path = OrganizedPath(4)
    /\ results[2].plate_path = None
    /\ agg_batch = <<>> /\ agg_cursor = 2
    /\ BusJob.job_id \in DOMAIN pending_jobs
    /\ pending_jobs[BusJob.job_id].frame_path = OrganizedPath(4)
    /\ pending_jobs[BusJob.job_id].plate_path = PlatePathOf(3)
    /\ DOMAIN pending_jobs[BusJob.job_id].results = {"logo", "ocr"}

\* a post of the heartbeat fails in this step
BeatFails == heartbeat.pc = "post" /\ heartbeat'.last = "failed" /\ heartbeat' # heartbeat

\* C31: a failed heartbeat post changes nothing of the orchestrator (its
\* position in run(), its children, the shutdown flag, the exit status),
\* leaves the heartbeat thread in its loop, and the next post is attempted
\* once the sleep is over, unless the process has ended by then.
C31_FailedBeatIsHarmless ==
    /\ [][BeatFails => (UNCHANGED orch_vars /\ heartbeat'.pc = "sleep")]_vars
    /\ (heartbeat = [pc |-> "sleep", last |-> "failed"]) ~>
           (heartbeat.pc = "post" \/ orch_pc = "exited")

\* C31 witness: the last post failed, the thread is about to post again and
\* the orchestrator is polling with all six children running.
C31_Witness ==
    /\ heartbeat = [pc |-> "post", last |-> "failed"]
    /\ orch_pc = "monitor_system"
    /\ \A name \in ChildNames : name \in DOMAIN processes /\ processes[name] = "running"

\* job_id.split("_")[1], the track id of a job_id Ingress built
TrackOf(job_id) == SplitHead(SplitRest(job_id, "_"), "_")

\* C32: no two Jobs on the Job Bus carry the same track id, and a detection
\* of a track that is already in saved_ids publishes nothing.
C32_OneJobPerTrack ==
    /\ \A i, j \in DOMAIN jobs :
           TrackOf(jobs[i].job_id) = TrackOf(jobs[j].job_id) => i = j
    /\ \A i \in DOMAIN jobs : \E t \in saved_ids : TrackOf(jobs[i].job_id) = TrackTok(t)

\* C32 witness: a track that was published is detected inside the zone
\* again, with a crop and a keyframe that could be saved, and there is still
\* one Job of it.
C32_Witness ==
    /\ call.fn = "frame"
    /\ call.ret = "seen"
    /\ call.arg[4] /\ call.arg[5]
    /\ Cardinality({i \in DOMAIN jobs : TrackOf(jobs[i].job_id) = TrackTok(call.arg[1])}) = 1

\* C33: the leading segment of the job_id of every published Job is the
\* Job's vehicle_type, so the aggregator expects the workers of that type.
C33_JobIdLeadsWithVehicleType ==
    \A i \in DOMAIN jobs :
        /\ TypeOf(jobs[i].job_id) = jobs[i].vehicle_type
        /\ get_expected_workers(TypeOf(jobs[i].job_id))
               = {w \in Workers : should_worker_process(w, jobs[i].vehicle_type)}

\* C33 witness: a motorcycle and an auto have been published.
C33_Witness ==
    /\ Len(jobs) = 2
    /\ jobs[1].vehicle_type = <<"motorcycle">>
    /\ jobs[2].vehicle_type = <<"auto">>
    /\ call.ret = "published"

\* C34: for each of the five vehicle types the workers whose relevance check
\* passes are the workers get_expected_workers returns.
C34_RelevanceAgreesWithExpected ==
    (call.fn = "get_expected_workers" /\ call.arg \in {<<t>> : t \in VehicleTypes})
        => {w \in Workers : should_worker_process(w, call.arg)} = call.ret

\* C34 witness: get_expected_workers was called for a motorcycle.
C34_Witness ==
    /\ call.fn = "get_expected_workers"
    /\ call.arg = <<"motorcycle">>
    /\ call.ret = {"ocr", "violation"}

\* C35: a step of the aggregator on its batch handles the first message of
\* the batch and leaves the others to be handled: every message read is
\* merged before the next read.
C35_WholeBatchHandled ==
    [][AggHandles =>
         /\ agg_batch' = Tail(agg_batch)
         /\ LET f == results[Head(agg_batch)]
            IN \/ \E k \in DOMAIN evicted' : evicted'[k] = f.job_id
               \/ /\ f.job_id \in DOMAIN pending_jobs'
                  /\ f.worker \in DOMAIN pending_jobs'[f.job_id].results]_vars

\* the calls of report_to_central for job_id
UploadsOf(job_id) == {k \in DOMAIN uploads : uploads[k].job_id = job_id}

\* the last call of report_to_central for job_id returned False
UploadFailed(job_id) ==
    /\ UploadsOf(job_id) # {}
    /\ ~uploads[CHOOSE k \in UploadsOf(job_id) : \A m \in UploadsOf(job_id) : m <= k].ok

\* the aggregator handles a Result of job_id in this step
HandlesResultOf(job_id) == AggHandles /\ results[Head(agg_batch)].job_id = job_id

\* C36: report_to_central is called only while a Result is handled, for the
\* job_id of that Result.  A job whose last upload failed keeps its entry;
\* the upload is attempted again in the step that handles another Result of
\* the job, and in every other step the entry is left as it is and no upload
\* of the job is attempted, whatever the collector would answer.
C36_UploadOnlyWhenResultHandled ==
    /\ [](\A k \in DOMAIN uploads : UploadFailed(uploads[k].job_id) =>
             uploads[k].job_id \in DOMAIN pending_jobs)
    /\ [][/\ UploadCalled =>
                 /\ AggHandles
                 /\ ThisUpload.msg_id = Head(agg_batch)
                 /\ ThisUpload.job_id = results[Head(agg_batch)].job_id
          /\ \A job_id \in DOMAIN pending_jobs : UploadFailed(job_id) =>
                 IF HandlesResultOf(job_id)
                 THEN UploadCalled /\ ThisUpload.job_id = job_id
                 ELSE /\ UploadsOf(job_id)' = UploadsOf(job_id)
                      /\ job_id \in DOMAIN pending_jobs'
                      /\ pending_jobs'[job_id] = pending_jobs[job_id]]_vars

\* C36 witness: the upload of a job failed while one Result was handled and
\* was attempted again, with success, while a later Result of the job was.
C36_Witness ==
    \E k1, k2 \in DOMAIN uploads :
        /\ k1 < k2
        /\ uploads[k1].job_id = uploads[k2].job_id
        /\ ~uploads[k1].ok /\ uploads[k1].sent
        /\ uploads[k2].ok
        /\ uploads[k1].msg_id < uploads[k2].msg_id

\* the monitor found a child dead, and Ingress was not among the dead
OtherChildDied == dead # {} /\ "Ingress" \notin dead

\* C37: after the monitor has found a worker or the Monitor process dead
\* with Ingress alive, no child is started again, and when the orchestrator
\* has ended (no SIGINT having arrived) every child has ended and the exit
\* status is 0.
C37_OtherChildDeathStopsAllExitsZero ==
    /\ []((OtherChildDied /\ orch_pc = "exited" /\ ~interrupted) =>
             (exit_code = 0 /\ AllChildrenExited))
    /\ [][OtherChildDied =>
             \A name \in DOMAIN processes :
                 processes[name] # "running" => processes'[name] # "running"]_vars

\* C39: an iteration of stop_all, the forced kill included, changes the
\* state of the child it is about and of no other child, and leaves the
\* orchestrator in its loop.
C39_ForcedKillHitsOneChild ==
    [][(orch_pc = "stop_all" /\ stop_log' # stop_log) =>
         LET name == stop_log'[Len(stop_log')].name
         IN /\ \A other \in DOMAIN processes \ {name} :
                   processes'[other] = processes[other]
            /\ orch_pc' = "stop_all"
            /\ exit_code' = NoExit]_vars

\* stop_all is called in this state with the shutdown already requested
SecondCall == orch_pc = "stop_all" /\ orch_i = 0 /\ shutdown_requested

Next ==
    \/ \E c \in Captures : IngressCapture(NextTrack, c[1], c[2])
    \/ \E w \in Workers : WorkerStep(w)
    \/ AggRead
    \/ \E response \in Responses : AggHandle(response)
    \/ AggHandleXackFails

Spec == Init /\ [][Next]_vars

\* the steps of the workers and of the aggregator
Progress ==
    \/ \E w \in Workers : WorkerStep(w)
    \/ AggRead
    \/ \E response \in Responses : AggHandle(response)
    \/ AggHandleXackFails

\* Every worker is a process of its own and the aggregator a thread of the
\* orchestrator; each runs a loop whose only waits are bus reads with a
\* timeout and sleeps, so as long as one of them has a step to take, a step
\* is taken.
LiveSpec == Spec /\ WF_vars(Progress)

====
